---- MODULE Spec2Model ----
(***************************************************************************)
(* The base-disk cache of bcvk's libvirt integration.                      *)
(*                                                                         *)
(* The state is the storage pool directory (files with their qcow2 data,   *)
(* xattrs and backing file), the libvirt domains, and the position of each *)
(* bcvk process.  Every bcvk invocation is its own OS process; the pool    *)
(* directory is the only thing they share, so each system call of          *)
(* base_disks.rs / run_anaconda.rs is one step.                            *)
(*                                                                         *)
(* File names are sequences of tokens ("bootc-base-", a hash, ".qcow2")    *)
(* so that starts_with / ends_with / contains / with_extension act on them *)
(* as they do on the strings of the source.                                *)
(***************************************************************************)
EXTENDS Integers, Sequences, FiniteSets, TLC

\* ------------------------------------------------------------------ bounds
\* cache operations (find_or_create calls) started in one behaviour
MaxOps == 4
\* VM operations (run, run-anaconda, list, prune) started in one behaviour
MaxVmOps == 3

\* ------------------------------------------------------- inputs of the runs
Procs == {"p1", "p2"}

\* (image digest, install options, kernel args) of `libvirt run`
Keys ==
  { [digest |-> "sha256:d1", opts |-> "ext4", kargs |-> "", ks |-> ""],
    [digest |-> "sha256:d1", opts |-> "ext4", kargs |-> "quiet", ks |-> ""],
    [digest |-> "sha256:d2", opts |-> "ext4", kargs |-> "", ks |-> ""] }

\* the key of the runs that are followed into their VMs
VmKeys == { [digest |-> "sha256:d2", opts |-> "ext4", kargs |-> "", ks |-> ""] }

\* (image digest, install options, kickstart) of `libvirt run-anaconda`
AnacondaKeys ==
  { [digest |-> "sha256:d1", opts |-> "xfs", kargs |-> "", ks |-> "ks1"] }

\* names `libvirt run --name` accepts: any name that is not an existing domain
VmNames == { <<"vm1">>, <<"vm2">>, <<"bootc-base-", "vm3">> }

NoName == << >>
NoKey == [digest |-> "", opts |-> "", kargs |-> "", ks |-> ""]

\* --------------------------------------------------------------- file names
StartsWith(name, tok) == Len(name) > 0 /\ name[1] = tok

EndsWith(name, tok) == Len(name) > 0 /\ name[Len(name)] = tok

\* str::contains on token sequences: needle is a contiguous part of hay
Contains(hay, needle) ==
  \E i \in 0..(Len(hay) - Len(needle)) :
     \A j \in 1..Len(needle) : hay[i + j] = needle[j]

PoolPath == <<"/pool/">>

\* Utf8Path::file_name of a path inside the pool
FileName(path) == IF StartsWith(path, "/pool/") THEN Tail(path) ELSE path

\* ------------------------------------------------------------------ hashing
\* DiskImageMetadata::compute_cache_hash: "sha256:" and 64 hex digits, here
\* the first 16 digits as one token and the remaining 48 as another.  The
\* first 16 digits of this hash function depend on the digest alone, so two
\* keys can share them, as two sha256 values can.
compute_cache_hash(key) ==
  << "sha256:",
     IF key.digest = "sha256:d1" THEN "a1" ELSE "b2",
     <<key.opts, key.kargs>> >>

\* strip_prefix("sha256:").chars().take(16)
short_hash(cache_hash) ==
  IF cache_hash[1] = "sha256:" THEN cache_hash[2] ELSE cache_hash[1]

\* format!("bootc-base-{}.qcow2", short_hash)
base_disk_name(key) ==
  <<"bootc-base-", short_hash(compute_cache_hash(key)), ".qcow2">>

\* base_disk_path.with_extension("qcow2.tmp")
temp_disk_path(base) == SubSeq(base, 1, Len(base) - 1) \o <<".qcow2", ".tmp">>

\* find_or_create_anaconda_base_disk: sha256 over digest, kickstart content,
\* repoint and install options; another hash than compute_cache_hash
anaconda_cache_hash(key) ==
  << "sha256:", IF key.ks = "ks1" THEN "c3" ELSE "d4", <<key.digest, key.opts>> >>

\* format!("bootc-base-anaconda-{}.qcow2", short_hash)
anaconda_base_disk_name(key) ==
  <<"bootc-base-", "anaconda-", short_hash(anaconda_cache_hash(key)), ".qcow2">>

\* format!("{}.{}.tmp.qcow2", base_disk_path.file_stem(), uuid)
anaconda_temp_disk_path(base, uuid) ==
  SubSeq(base, 1, Len(base) - 1) \o <<".", uuid, ".tmp", ".qcow2">>

\* format!("{}.qcow2", vm_name)
vm_disk_name(vm) == vm \o <<".qcow2">>

\* ------------------------------------------------------------------- xattrs
XattrNames ==
  {"user.bcvk.image-digest", "user.bcvk.install-options-hash", "user.bcvk.kernel-args"}

Absent == "absent"

NoXattr == [x \in XattrNames |-> Absent]

\* DiskImageMetadata::from + write_to_file: the record the three xattrs hold
MetadataXattr(key) ==
  [x \in XattrNames |->
     CASE x = "user.bcvk.image-digest" -> key.digest
       [] x = "user.bcvk.install-options-hash" -> key.opts
       [] OTHER -> key.kargs]

\* cache_metadata::check_cached_disk on the xattrs of an existing file
check_cached_disk(file, key) == file.xattr = MetadataXattr(key)

\* -------------------------------------------------------------------- files
\* the default disk size or --root-size, decided by the install options
DiskSizeOf(key) == IF key.opts = "ext4" THEN "10G" ELSE "20G"

\* qemu-img create: a fresh qcow2, nothing installed, no xattrs
NewDisk(owner, size) ==
  [writer |-> owner, data |-> "partial", xattr |-> NoXattr, backing |-> NoName,
   vsize |-> size, dirty |-> FALSE, readable |-> TRUE]

Put(f, n, r) == [x \in (DOMAIN f) \cup {n} |-> IF x = n THEN r ELSE f[x]]

\* an unlink that removes nothing
Del_Nothing(f, n) == f

Del(f, n) == [x \in (DOMAIN f) \ {n} |-> f[x]]

Exists(f, n) == n \in DOMAIN f

\* ---------------------------------------------- values before anything ran
\* an image root with no boot/ and no usr/lib/modules
NoRoot == [esp |-> {}, modules |-> << >>]

\* find_kernel has not been called
NotLocated == [by |-> "none", outcome |-> "not_run"]

\* no ephemeral run has been started
\* no ExitStatus yet
NoStatus == [kind |-> "none", code |-> 0]

\* an ephemeral run that has not started: no child process exists
EphIdle ==
  [pc |-> "idle", via |-> "none", kargs |-> << >>, debug |-> FALSE,
   virtiofsd |-> "none", socket |-> "absent", qemu |-> "none", connect |-> "none",
   status |-> NoStatus, result |-> "none"]

\* no readiness wait has been started
\* no readiness wait in progress
NotWaiting ==
  [pc |-> "idle", via |-> "none", timeout |-> 0, poll_interval |-> 0,
   suppress_output |-> FALSE, elapsed |-> 0, attempt |-> 0, guest_up |-> FALSE,
   result |-> "none", console_hint |-> FALSE]

\* no guest path has been converted
\* no guest path converted yet
NoUnit == [pc |-> "idle", guest_path |-> << >>, unit_name |-> << >>]

\* no domain is being built
NoTags == [pc |-> "idle", filesystems |-> << >>]

VARIABLES
  files,     \* pool directory: file name -> file
  domains,   \* libvirt domains: vm name -> [disk, transient, writes]
  proc,      \* per bcvk process: position and locals
  nops,      \* operations started so far
  root,      \* the image root directory the kernel is looked up in
  kernel,    \* what the kernel lookup returned
  eph,       \* an ephemeral run: position, child processes, exit status
  cpio,      \* the entries written to the initramfs units archive
  ready,     \* a readiness wait: elapsed time, attempts, outcome
  unit,      \* a guest path and the mount unit name made from it
  keys,      \* the cache hashes computed so far, each with its inputs
  tags       \* the virtiofs filesystems of the domain being built

\* the storage pool and the libvirt processes
poolvars == <<files, domains, proc, nops>>

\* the ephemeral run and its helpers
auxvars == <<root, kernel, eph, cpio, ready, unit, keys, tags>>

vars == <<files, domains, proc, nops, root, kernel, eph, cpio, ready, unit, keys, tags>>

Idle ==
  [pc |-> "idle", op |-> "none", key |-> NoKey, vm |-> NoName, transient |-> FALSE,
   base |-> NoName, tmp |-> NoName, disk |-> NoName, result |-> "none",
   dry |-> FALSE, pruned |-> {}, refs |-> << >>, vol_delete |-> "none",
   bind_mounts |-> << >>]

\* nothing of the ephemeral run has happened
AuxIdle ==
  /\ root = NoRoot
  /\ kernel = NotLocated
  /\ eph = EphIdle
  /\ cpio = << >>
  /\ ready = NotWaiting
  /\ unit = NoUnit
  /\ keys = << >>
  /\ tags = NoTags

\* an empty pool, no domain, no process inside an operation
PoolIdle ==
  /\ files = << >>
  /\ domains = << >>
  /\ proc = [p \in Procs |-> Idle]
  /\ nops = 0

Init == PoolIdle /\ AuxIdle

\* the process returns: only the operation and its result stay visible
Return(pr, res) == [Idle EXCEPT !.op = pr.op, !.result = res]

\* the process returns with an error
Fail(p, why) == Return(proc[p], why)

\* cleanup_temp_disk: remove the temporary file if it (still) exists
cleanup_temp_disk(f, tmp) == IF Exists(f, tmp) THEN Del(f, tmp) ELSE f

\* ------------------------------------------------------- libvirt run (run.rs)
\* run(): the name check against the existing domains, then phase 1 starts
RunStart(p, key, vm, transient, bind_mounts) ==
  /\ proc[p].pc = "idle"
  /\ nops < MaxVmOps
  /\ nops' = nops + 1
  /\ IF vm \in DOMAIN domains
       THEN proc' = [proc EXCEPT ![p] =
                       [Idle EXCEPT !.op = "run", !.result = "err_vm_exists"]]
       ELSE proc' = [proc EXCEPT ![p] =
                       [Idle EXCEPT !.pc = "lookup", !.op = "run", !.key = key,
                                    !.vm = vm, !.transient = transient,
                                    !.bind_mounts = bind_mounts,
                                    !.base = base_disk_name(key),
                                    !.tmp = temp_disk_path(base_disk_name(key))]]
  /\ UNCHANGED <<files, domains>>
  /\ UNCHANGED auxvars

\* a caller of find_or_create_base_disk alone (the operation `lookup/create`
\* of the cache), without the VM that run() builds on the result
FindOrCreateStart(p, key) ==
  /\ proc[p].pc = "idle"
  /\ nops < MaxOps
  /\ nops' = nops + 1
  /\ proc' = [proc EXCEPT ![p] =
                [Idle EXCEPT !.pc = "lookup", !.op = "find_or_create", !.key = key,
                             !.base = base_disk_name(key),
                             !.tmp = temp_disk_path(base_disk_name(key))]]
  /\ UNCHANGED <<files, domains>>
  /\ UNCHANGED auxvars

\* every VM gets the base itself as its disk, no clone
DiskChoice_BaseDirect(pr) ==
  [pr EXCEPT !.pc = "domain", !.disk = pr.base]

\* run(), phase 2: a transient VM uses the base directly, any other VM is cloned
DiskChoice(pr) ==
  IF pr.transient
    THEN [pr EXCEPT !.pc = "domain", !.disk = pr.base]
    ELSE [pr EXCEPT !.pc = "clone"]

\* Ok(base_disk_path) of find_or_create_base_disk, back in the caller
AfterBase(pr) ==
  IF pr.op \in {"run", "run-anaconda"} THEN DiskChoice(pr) ELSE Return(pr, pr.result)

\* a lookup that trusts any file at the name, without reading its xattrs
LookupOutcome_TrustExisting(f, base, key) ==
  IF Exists(f, base) THEN "hit" ELSE "miss"

\* find_or_create_base_disk: exists() and check_cached_disk()
LookupOutcome(f, base, key) ==
  IF Exists(f, base)
    THEN IF check_cached_disk(f[base], key) THEN "hit" ELSE "stale"
    ELSE "miss"

Lookup(p) ==
  /\ proc[p].pc = "lookup"
  /\ LET out == LookupOutcome(files, proc[p].base, proc[p].key) IN
       proc' = [proc EXCEPT ![p] =
                  CASE out = "hit" -> AfterBase([proc[p] EXCEPT !.result = "hit"])
                    [] out = "stale" -> [proc[p] EXCEPT !.pc = "remove_stale"]
                    [] OTHER -> [proc[p] EXCEPT !.pc = "install"]]
  /\ UNCHANGED <<files, domains, nops>>
  /\ UNCHANGED auxvars

\* find_or_create_base_disk: fs::remove_file of the stale base disk
RemoveStale(p) ==
  /\ proc[p].pc = "remove_stale"
  /\ IF Exists(files, proc[p].base)
       THEN /\ files' = Del(files, proc[p].base)
            /\ proc' = [proc EXCEPT ![p] = [proc[p] EXCEPT !.pc = "install", !.result = "stale"]]
       ELSE /\ files' = files
            /\ proc' = [proc EXCEPT ![p] = Fail(p, "err")]
  /\ UNCHANGED <<domains, nops>>
  /\ UNCHANGED auxvars

\* to_disk::run, first half: an existing target with matching metadata is
\* reused, otherwise the target is created anew and the install VM starts
ToDiskBegin(f, tmp, key, p) ==
  IF Exists(f, tmp) /\ check_cached_disk(f[tmp], key)
    THEN f
    ELSE Put(f, tmp, NewDisk(p, DiskSizeOf(key)))

InstallBegin(p) ==
  /\ proc[p].pc = "install"
  /\ LET tmp == proc[p].tmp
         reuse == Exists(files, tmp) /\ check_cached_disk(files[tmp], proc[p].key) IN
       /\ files' = ToDiskBegin(files, tmp, proc[p].key, p)
       /\ proc' = [proc EXCEPT ![p] =
                     [proc[p] EXCEPT !.pc = IF reuse THEN "verify" ELSE "installing"]]
  /\ UNCHANGED <<domains, nops>>
  /\ UNCHANGED auxvars

\* the install VM of process p has exited: the file it had opened (wherever
\* that file is by now) holds a complete install, or stays incomplete
Installed(f, p, ok) ==
  [n \in DOMAIN f |->
     IF f[n].writer = p
       THEN [f[n] EXCEPT !.writer = "none",
                         !.data = IF ok THEN "installed" ELSE "aborted"]
       ELSE f[n]]

\* to_disk::run, second half: after a successful install the metadata is
\* written to the xattrs of the file at the target path
ToDiskEnd(f, tmp, key, p, xattr_ok) ==
  LET g == Installed(f, p, TRUE) IN
    IF xattr_ok THEN [g EXCEPT ![tmp].xattr = MetadataXattr(key)] ELSE g

\* create_base_disk: to_disk::run returns; on Err the temp disk is cleaned up
InstallEnd(p, ok, xattr_ok) ==
  /\ proc[p].pc = "installing"
  /\ LET tmp == proc[p].tmp IN
       IF ok /\ Exists(files, tmp)
         THEN /\ files' = ToDiskEnd(files, tmp, proc[p].key, p, xattr_ok)
              /\ proc' = [proc EXCEPT ![p] = [proc[p] EXCEPT !.pc = "verify"]]
         ELSE /\ files' = cleanup_temp_disk(Installed(files, p, ok), tmp)
              /\ proc' = [proc EXCEPT ![p] = Fail(p, "err")]
  /\ UNCHANGED <<domains, nops>>
  /\ UNCHANGED auxvars

\* create_base_disk: check_cached_disk on the temp disk decides the promotion
VerifyOutcome(f, tmp, key) ==
  IF ~Exists(f, tmp) THEN "err"
  ELSE IF check_cached_disk(f[tmp], key) THEN "true" ELSE "false"

Verify(p) ==
  /\ proc[p].pc = "verify"
  /\ LET out == VerifyOutcome(files, proc[p].tmp, proc[p].key) IN
       IF out = "true"
         THEN /\ files' = files
              /\ proc' = [proc EXCEPT ![p] = [proc[p] EXCEPT !.pc = "rename"]]
         ELSE /\ files' = cleanup_temp_disk(files, proc[p].tmp)
              /\ proc' = [proc EXCEPT ![p] =
                            Fail(p, "err")]
  /\ UNCHANGED <<domains, nops>>
  /\ UNCHANGED auxvars

\* fs::rename(tmp, base): the file keeps its inode, data and xattrs
rename(f, from, to) == Put(Del(f, from), to, f[from])

\* create_base_disk: the promotion, then pool-refresh and Ok(base_disk_path)
Rename(p) ==
  /\ proc[p].pc = "rename"
  /\ IF Exists(files, proc[p].tmp)
       THEN /\ files' = rename(files, proc[p].tmp, proc[p].base)
            /\ proc' = [proc EXCEPT ![p] =
                          AfterBase([proc[p] EXCEPT
                             !.result = IF proc[p].result = "stale" THEN "rebuilt" ELSE "created"])]
       ELSE /\ files' = files
            /\ proc' = [proc EXCEPT ![p] = Fail(p, "err")]
  /\ UNCHANGED <<domains, nops>>
  /\ UNCHANGED auxvars

\* ------------------------------------------- base_disks.rs: clone_from_base
\* a plain volume of the same size, with no backing file
BackedDisk_Flat(base_path, size) ==
  [writer |-> "none", data |-> "overlay", xattr |-> NoXattr,
   backing |-> NoName, vsize |-> size, dirty |-> FALSE, readable |-> TRUE]

\* the volume `vol-create-as --backing-vol base --format qcow2` creates
BackedDisk(base_path, size) ==
  [writer |-> "none", data |-> "overlay", xattr |-> NoXattr,
   backing |-> PoolPath \o FileName(base_path), vsize |-> size, dirty |-> FALSE,
   readable |-> TRUE]

\* what `virsh vol-delete` can answer for the VM disk name
VolDeleteOutcomes(f, name) ==
  IF Exists(f, name) THEN {"deleted", "failed"} ELSE {"not_found"}

\* a clone that goes on when vol-delete has failed
clone_from_base_IgnoreDeleteFailure(f, base, vm, del, created) ==
  LET disk == vm_disk_name(vm)
      f1 == IF del = "deleted" THEN Del(f, disk) ELSE f
  IN  IF ~Exists(f1, base) \/ ~f1[base].readable
        THEN [files |-> f1, result |-> "err"]
      ELSE IF ~created THEN [files |-> f1, result |-> "err"]
      ELSE [files |-> Put(f1, disk, BackedDisk(PoolPath \o base, f1[base].vsize)),
            result |-> "ok"]

\* clone_from_base: the pool directory it leaves and what it returns, given
\* the answers of vol-delete and vol-create-as
clone_from_base(f, base, vm, del, created) ==
  LET disk == vm_disk_name(vm)
      f1 == IF del = "deleted" THEN Del(f, disk) ELSE f
  IN  IF del = "failed" THEN [files |-> f, result |-> "err_vol_delete"]
      ELSE IF ~Exists(f1, base) \/ ~f1[base].readable
             THEN [files |-> f1, result |-> "err"]
      ELSE IF ~created THEN [files |-> f1, result |-> "err"]
      ELSE [files |-> Put(f1, disk, BackedDisk(PoolPath \o base, f1[base].vsize)),
            result |-> "ok"]

Clone(p, del, created) ==
  /\ proc[p].pc = "clone"
  /\ del \in VolDeleteOutcomes(files, vm_disk_name(proc[p].vm))
  /\ LET r == clone_from_base(files, proc[p].base, proc[p].vm, del, created) IN
       /\ files' = r.files
       /\ proc' = [proc EXCEPT ![p] =
                     IF r.result = "ok"
                       THEN [proc[p] EXCEPT !.pc = "domain", !.disk = vm_disk_name(proc[p].vm),
                                            !.vol_delete = del]
                       ELSE [Fail(p, r.result) EXCEPT !.vol_delete = del]]
  /\ UNCHANGED <<domains, nops>>
  /\ UNCHANGED auxvars

\* ------------------------------------- run.rs: create_libvirt_domain_from_disk
\* DomainBuilder .with_disk(disk_path).with_transient_disk(opts.transient)
DomainOf(pr) == [disk |-> pr.disk, transient |-> pr.transient, overlay_dirty |-> FALSE]

\* BindMount { host_path, guest_path }: what the host path is on the host
\* (a directory, a regular file, nothing), and the guest path
BindMounts ==
  {[host_path |-> h, guest_path |-> g] :
     h \in {"dir", "file", "missing"}, g \in {<<"/", "mnt">>, <<"mnt">>}}

\* the --bind options of one run
BindMountLists ==
  {<< >>} \cup {<<b>> : b \in BindMounts} \cup
  {<<[host_path |-> "dir", guest_path |-> <<"/", "data">>], b>> : b \in BindMounts}

\* BindMount::validate: Ok(()) or an error
validate(bind_mount) ==
  /\ bind_mount.host_path # "missing"
  /\ bind_mount.host_path = "dir"
  /\ StartsWith(bind_mount.guest_path, "/")

\* process_bind_mounts: every mount is validated before it is added
process_bind_mounts(bind_mounts) ==
  \A i \in DOMAIN bind_mounts : validate(bind_mounts[i])

Domain(p, ok) ==
  /\ proc[p].pc = "domain"
  /\ IF ~process_bind_mounts(proc[p].bind_mounts)
       THEN /\ domains' = domains
            /\ proc' = [proc EXCEPT ![p] = Fail(p, "err_bind_mount")]
     ELSE IF ok /\ proc[p].vm \notin DOMAIN domains
       THEN /\ domains' = Put(domains, proc[p].vm, DomainOf(proc[p]))
            /\ proc' = [proc EXCEPT ![p] = Return(proc[p], "ok")]
       ELSE /\ domains' = domains
            /\ proc' = [proc EXCEPT ![p] = Fail(p, "err")]
  /\ UNCHANGED <<files, nops>>
  /\ UNCHANGED auxvars

\* a running guest writes to its disk: libvirt gives a <transient/> disk a
\* per-boot overlay, any other disk is written in place
GuestWrite(vm) ==
  /\ vm \in DOMAIN domains
  /\ LET d == domains[vm] IN
       IF d.transient
         THEN /\ ~d.overlay_dirty
              /\ domains' = [domains EXCEPT ![vm].overlay_dirty = TRUE]
              /\ files' = files
         ELSE /\ Exists(files, d.disk)
              /\ ~files[d.disk].dirty
              /\ files' = [files EXCEPT ![d.disk].dirty = TRUE]
              /\ domains' = domains
  /\ UNCHANGED <<proc, nops>>
  /\ UNCHANGED auxvars

\* a VM disk becomes unreadable for `qemu-img info` (damaged header)
DamageDisk(name) ==
  /\ Exists(files, name)
  /\ files[name].backing # NoName
  /\ files[name].readable
  /\ files' = [files EXCEPT ![name].readable = FALSE]
  /\ UNCHANGED <<domains, proc, nops>>
  /\ UNCHANGED auxvars

\* ---------------------------------------------- run_anaconda.rs: base disks
AnacondaStart(p, key, vm, transient) ==
  /\ proc[p].pc = "idle"
  /\ nops < MaxVmOps
  /\ nops' = nops + 1
  /\ IF vm \in DOMAIN domains
       THEN proc' = [proc EXCEPT ![p] =
                       [Idle EXCEPT !.op = "run-anaconda", !.result = "err_vm_exists"]]
       ELSE proc' = [proc EXCEPT ![p] =
                       [Idle EXCEPT !.pc = "a_lookup", !.op = "run-anaconda", !.key = key,
                                    !.vm = vm, !.transient = transient,
                                    !.base = anaconda_base_disk_name(key),
                                    !.tmp = anaconda_temp_disk_path(
                                               anaconda_base_disk_name(key), p)]]
  /\ UNCHANGED <<files, domains>>
  /\ UNCHANGED auxvars

\* a caller of find_or_create_anaconda_base_disk alone
AnacondaFindOrCreateStart(p, key) ==
  /\ proc[p].pc = "idle"
  /\ nops < MaxOps
  /\ nops' = nops + 1
  /\ proc' = [proc EXCEPT ![p] =
                [Idle EXCEPT !.pc = "a_lookup", !.op = "find_or_create_anaconda",
                             !.key = key,
                             !.base = anaconda_base_disk_name(key),
                             !.tmp = anaconda_temp_disk_path(
                                        anaconda_base_disk_name(key), p)]]
  /\ UNCHANGED <<files, domains>>
  /\ UNCHANGED auxvars

\* find_or_create_anaconda_base_disk: an existing file is trusted by its name
AnacondaLookup(p) ==
  /\ proc[p].pc = "a_lookup"
  /\ proc' = [proc EXCEPT ![p] =
                IF Exists(files, proc[p].base)
                  THEN AfterBase([proc[p] EXCEPT !.result = "hit"])
                  ELSE [proc[p] EXCEPT !.pc = "a_install"]]
  /\ UNCHANGED <<files, domains, nops>>
  /\ UNCHANGED auxvars

\* anaconda::install::install: qemu-img create of the target, then the VM
AnacondaInstallBegin(p) ==
  /\ proc[p].pc = "a_install"
  /\ files' = Put(files, proc[p].tmp, NewDisk(p, DiskSizeOf(proc[p].key)))
  /\ proc' = [proc EXCEPT ![p] = [proc[p] EXCEPT !.pc = "a_installing"]]
  /\ UNCHANGED <<domains, nops>>
  /\ UNCHANGED auxvars

\* the xattrs create_anaconda_base_disk writes: DiskImageMetadata::from(
\* install_options, image_digest, ..).write_to_file
AnacondaXattr(key) == MetadataXattr(key)

\* create_anaconda_base_disk: install() returns (on Err it has removed the
\* target), then File::open(temp) and write_to_file; any Err cleans up
AnacondaInstallEnd(p, ok, xattr_ok) ==
  /\ proc[p].pc = "a_installing"
  /\ LET tmp == proc[p].tmp
         g == Installed(files, p, ok) IN
       IF ok /\ xattr_ok /\ Exists(files, tmp)
         THEN /\ files' = [g EXCEPT ![tmp].xattr = AnacondaXattr(proc[p].key)]
              /\ proc' = [proc EXCEPT ![p] = [proc[p] EXCEPT !.pc = "a_rename"]]
         ELSE /\ files' = cleanup_temp_disk(g, tmp)
              /\ proc' = [proc EXCEPT ![p] = Fail(p, "err")]
  /\ UNCHANGED <<domains, nops>>
  /\ UNCHANGED auxvars

\* create_anaconda_base_disk: std::fs::rename(temp, base), then pool-refresh
AnacondaRename(p) ==
  /\ proc[p].pc = "a_rename"
  /\ IF Exists(files, proc[p].tmp)
       THEN /\ files' = rename(files, proc[p].tmp, proc[p].base)
            /\ proc' = [proc EXCEPT ![p] = AfterBase([proc[p] EXCEPT !.result = "created"])]
       ELSE /\ files' = files
            /\ proc' = [proc EXCEPT ![p] = Fail(p, "err")]
  /\ UNCHANGED <<domains, nops>>
  /\ UNCHANGED auxvars

\* ------------------------------------------- base_disks.rs: list and prune
\* run.rs list_storage_pool_volumes: the *.raw and *.qcow2 files of the pool
list_storage_pool_volumes(f) ==
  {n \in DOMAIN f : EndsWith(n, ".raw") \/ EndsWith(n, ".qcow2")}

\* the filter of list_base_disks and prune_base_disks: the non-base volumes
vm_disks_of(f) ==
  {n \in list_storage_pool_volumes(f) : ~StartsWith(n, "bootc-base-")}

\* the directory entries list_base_disks reports as base disks
base_disk_entries(f) ==
  {n \in DOMAIN f : StartsWith(n, "bootc-base-") /\ EndsWith(n, ".qcow2")}

\* `qemu-img info --force-share` succeeds on the VM disk
InfoReadable(f, d) == Exists(f, d) /\ f[d].readable

\* the backing-filename / full-backing-filename test of both loops
BackingNames(f, d, base) ==
  f[d].backing # NoName /\ Contains(f[d].backing, base)

\* a count that takes an unreadable VM disk as a reference to every base
RECURSIVE count_base_disk_references_Conservative(_, _, _)
count_base_disk_references_Conservative(f, base, vm_disks) ==
  IF vm_disks = {} THEN 0
  ELSE LET d == CHOOSE x \in vm_disks : TRUE
           rest == count_base_disk_references_Conservative(f, base, vm_disks \ {d})
       IN  IF ~InfoReadable(f, d) THEN rest + 1
           ELSE IF BackingNames(f, d, base) THEN rest + 1
           ELSE rest

RECURSIVE count_base_disk_references(_, _, _)
count_base_disk_references(f, base, vm_disks) ==
  IF vm_disks = {} THEN 0
  ELSE LET d == CHOOSE x \in vm_disks : TRUE
           rest == count_base_disk_references(f, base, vm_disks \ {d})
       IN  IF ~InfoReadable(f, d) THEN rest
           ELSE IF BackingNames(f, d, base) THEN rest + 1
           ELSE rest

\* a check that skips the VM disks it cannot read
RECURSIVE check_base_disk_referenced_SkipUnreadable(_, _, _)
check_base_disk_referenced_SkipUnreadable(f, base, vm_disks) ==
  IF vm_disks = {} THEN FALSE
  ELSE LET d == CHOOSE x \in vm_disks : TRUE IN
         IF InfoReadable(f, d) /\ BackingNames(f, d, base) THEN TRUE
         ELSE check_base_disk_referenced_SkipUnreadable(f, base, vm_disks \ {d})

RECURSIVE check_base_disk_referenced(_, _, _)
check_base_disk_referenced(f, base, vm_disks) ==
  IF vm_disks = {} THEN FALSE
  ELSE LET d == CHOOSE x \in vm_disks : TRUE IN
         IF ~InfoReadable(f, d) THEN TRUE
         ELSE IF BackingNames(f, d, base) THEN TRUE
         ELSE check_base_disk_referenced(f, base, vm_disks \ {d})

\* list_base_disks: every base disk entry with its ref_count
list_base_disks(f) ==
  [b \in base_disk_entries(f) |-> count_base_disk_references(f, b, vm_disks_of(f))]

List(p) ==
  /\ proc[p].pc = "idle"
  /\ nops < MaxVmOps
  /\ nops' = nops + 1
  /\ proc' = [proc EXCEPT ![p] =
                [Idle EXCEPT !.op = "list", !.result = "ok", !.refs = list_base_disks(files)]]
  /\ UNCHANGED <<files, domains>>
  /\ UNCHANGED auxvars

\* the base disks prune_base_disks finds unreferenced
Unreferenced(f) ==
  {b \in DOMAIN list_base_disks(f) : ~check_base_disk_referenced(f, b, vm_disks_of(f))}

\* prune_base_disks: the loop over the base disks.  `failing` is the base
\* whose `virsh vol-delete` fails (NoName: none does) and `before` the
\* unreferenced bases the loop reached before it; the loop reads the VM disks
\* only, so the bases it deletes do not change what it finds next.
prune_base_disks(f, dry_run, failing, before) ==
  LET un == Unreferenced(f) IN
    IF dry_run THEN [files |-> f, result |-> "ok", pruned |-> un]
    ELSE IF failing \in un
      THEN [files |-> [n \in (DOMAIN f) \ before |-> f[n]], result |-> "err_vol_delete",
            pruned |-> {}]
      ELSE [files |-> [n \in (DOMAIN f) \ un |-> f[n]], result |-> "ok", pruned |-> un]

Prune(p, dry_run) ==
  /\ proc[p].pc = "idle"
  /\ nops < MaxVmOps
  /\ nops' = nops + 1
  /\ LET un == Unreferenced(files) IN
       \E failing \in un \cup {NoName}, before \in SUBSET un :
          /\ failing \notin before
          /\ (failing = NoName \/ dry_run) => before = {}
          /\ LET r == prune_base_disks(files, dry_run, failing, before) IN
               /\ files' = r.files
               /\ proc' = [proc EXCEPT ![p] =
                             [Idle EXCEPT !.op = "prune", !.dry = dry_run,
                                          !.result = r.result, !.pruned = r.pruned]]
  /\ UNCHANGED domains
  /\ UNCHANGED auxvars

\* ------------------------------------------------------------ specifications
\* the steps of find_or_create_base_disk and find_or_create_anaconda_base_disk
CacheStep ==
  \/ \E p \in Procs : Lookup(p)
  \/ \E p \in Procs : RemoveStale(p)
  \/ \E p \in Procs : InstallBegin(p)
  \/ \E p \in Procs, ok \in BOOLEAN, xattr_ok \in BOOLEAN : InstallEnd(p, ok, xattr_ok)
  \/ \E p \in Procs : Verify(p)
  \/ \E p \in Procs : Rename(p)
  \/ \E p \in Procs : AnacondaLookup(p)
  \/ \E p \in Procs : AnacondaInstallBegin(p)
  \/ \E p \in Procs, ok \in BOOLEAN, xattr_ok \in BOOLEAN : AnacondaInstallEnd(p, ok, xattr_ok)
  \/ \E p \in Procs : AnacondaRename(p)

\* clone_from_base and the domain creation of a run
VmStep ==
  \/ \E p \in Procs, del \in {"deleted", "failed", "not_found"}, c \in BOOLEAN : Clone(p, del, c)
  \/ \E p \in Procs, ok \in BOOLEAN : Domain(p, ok)

\* the cache on its own: concurrent lookups and installs of both producers
NextCache ==
  \/ \E p \in Procs, key \in Keys : FindOrCreateStart(p, key)
  \/ \E p \in Procs, key \in AnacondaKeys : AnacondaFindOrCreateStart(p, key)
  \/ CacheStep

SpecCache == Init /\ [][NextCache]_vars

\* the steps of a run whose key has no stale entry in the cache
RunStep ==
  \/ \E p \in Procs : Lookup(p)
  \/ \E p \in Procs : InstallBegin(p)
  \/ \E p \in Procs, ok \in BOOLEAN, xattr_ok \in BOOLEAN : InstallEnd(p, ok, xattr_ok)
  \/ \E p \in Procs : Verify(p)
  \/ \E p \in Procs : Rename(p)
  \/ \E p \in Procs : AnacondaLookup(p)
  \/ \E p \in Procs : AnacondaInstallBegin(p)
  \/ \E p \in Procs, ok \in BOOLEAN, xattr_ok \in BOOLEAN : AnacondaInstallEnd(p, ok, xattr_ok)
  \/ \E p \in Procs : AnacondaRename(p)
  \/ VmStep

\* the VMs built on the cache by one process, with `base-disks list` and
\* `base-disks prune` run from another while VM disks get damaged
NextVm ==
  \/ \E key \in VmKeys, vm \in VmNames, t \in BOOLEAN : RunStart("p1", key, vm, t, << >>)
  \/ \E key \in AnacondaKeys, vm \in VmNames, t \in BOOLEAN :
        AnacondaStart("p1", key, vm, t)
  \/ List("p2")
  \/ \E dry \in BOOLEAN : Prune("p2", dry)
  \/ RunStep
  \/ \E n \in DOMAIN files : DamageDisk(n)

SpecVm == Init /\ [][NextVm]_vars

\* the guests of the VMs that the runs create
NextGuest ==
  \/ \E key \in VmKeys, vm \in VmNames, t \in BOOLEAN : RunStart("p1", key, vm, t, << >>)
  \/ \E key \in AnacondaKeys, vm \in VmNames, t \in BOOLEAN :
        AnacondaStart("p1", key, vm, t)
  \/ RunStep
  \/ \E vm \in VmNames : GuestWrite(vm)

SpecGuest == Init /\ [][NextGuest]_vars

\* runs with --bind options, valid and invalid ones
NextBind ==
  \/ \E key \in VmKeys, vm \in VmNames, t \in BOOLEAN, b \in BindMountLists :
        RunStart("p1", key, vm, t, b)
  \/ Lookup("p1")
  \/ InstallBegin("p1")
  \/ \E ok \in BOOLEAN, xattr_ok \in BOOLEAN : InstallEnd("p1", ok, xattr_ok)
  \/ Verify("p1")
  \/ Rename("p1")
  \/ VmStep

SpecBind == Init /\ [][NextBind]_vars

\* ------------------------------------------------------------- kernel.rs
\* version directories an image root may have under usr/lib/modules
MaxVersions == 2

Versions == 1..MaxVersions

\* file names are <<stem, extension>>
UKI_EXTENSION == "efi"

VMLINUZ == <<"vmlinuz", "">>

INITRAMFS == <<"initramfs", "img">>

EFI_LINUX == "EFI/Linux"

MODULES_DIR == "modules"

\* what boot/EFI/Linux may hold: files and directories, names valid UTF-8
EspEntries ==
  {[name |-> <<"linux-a", "efi">>, type |-> "file"],
   [name |-> <<"linux-b", "efi">>, type |-> "file"],
   [name |-> <<"extra", "efi">>, type |-> "dir"],
   [name |-> <<"loader", "conf">>, type |-> "file"]}

\* what a version directory may hold besides vmlinuz and initramfs.img
VersionEntries ==
  {[name |-> <<"uki", "efi">>, type |-> "file"],
   [name |-> <<"addons", "efi">>, type |-> "dir"]}

\* an entry of usr/lib/modules: a plain file, or a version directory
ModulesEntries ==
  {[type |-> "file"]} \cup
  {[type |-> "dir", vmlinuz |-> vz, initramfs |-> ir, entries |-> es] :
     vz \in BOOLEAN, ir \in BOOLEAN, es \in SUBSET VersionEntries}

\* the image roots: a missing directory reads like an empty one
Roots ==
  {[esp |-> e, modules |-> m] :
     e \in SUBSET EspEntries,
     m \in UNION {[vs -> ModulesEntries] : vs \in SUBSET Versions}}

NoPath == << >>

KernelInfo(path, initramfs, uki) ==
  [kernel_path |-> path, initramfs_path |-> initramfs, is_uki |-> uki]

is_uki_file(name) == name[2] = UKI_EXTENSION

\* every entry named *.efi is taken, whatever its file type
find_ukis_in_esp(r) ==
  {KernelInfo(<<"boot", EFI_LINUX, e.name>>, NoPath, TRUE) :
     e \in {x \in r.esp : is_uki_file(x.name)}}

find_ukis_in_version_dir(version_dir) ==
  {e.name : e \in {x \in version_dir.entries : is_uki_file(x.name) /\ x.type = "file"}}

\* the entries of usr/lib/modules that are directories
version_dirs(r) == {v \in DOMAIN r.modules : r.modules[v].type = "dir"}

find_ukis_in_modules_Skipped(r) == {}

find_ukis_in_modules(r) ==
  UNION {{KernelInfo(<<"usr/lib", MODULES_DIR, v, n>>, NoPath, TRUE) :
            n \in find_ukis_in_version_dir(r.modules[v])} : v \in version_dirs(r)}

has_traditional_kernel(version_dir) == version_dir.vmlinuz /\ version_dir.initramfs

find_traditional_kernels_in_modules(r) ==
  {KernelInfo(<<"usr/lib", MODULES_DIR, v, VMLINUZ>>,
             <<"usr/lib", MODULES_DIR, v, INITRAMFS>>, FALSE) :
     v \in {x \in version_dirs(r) : has_traditional_kernel(r.modules[x])}}

\* Ok(Some(info)), Ok(None), or the error that lists the paths found
ExactlyOne(found, none) ==
  IF found = {} THEN none
  ELSE IF Cardinality(found) = 1
    THEN [outcome |-> "ok", info |-> CHOOSE k \in found : TRUE]
    ELSE [outcome |-> "multiple", n |-> Cardinality(found),
          paths |-> {k.kernel_path : k \in found}]

find_kernel_TraditionalFirst(r) ==
  LET traditional == find_traditional_kernels_in_modules(r) IN
    IF traditional # {}
      THEN ExactlyOne(traditional, [outcome |-> "none"])
      ELSE ExactlyOne(find_ukis_in_esp(r) \cup find_ukis_in_modules(r), [outcome |-> "none"])

find_kernel(r) ==
  LET ukis == find_ukis_in_esp(r) \cup find_ukis_in_modules(r) IN
    IF ukis # {}
      THEN ExactlyOne(ukis, [outcome |-> "none"])
      ELSE ExactlyOne(find_traditional_kernels_in_modules(r), [outcome |-> "none"])

\* a caller locates the kernel of the image with find_kernel
FindKernel ==
  /\ kernel = NotLocated
  /\ kernel' = [by |-> "find_kernel"] @@ find_kernel(root)
  /\ UNCHANGED <<poolvars, root, eph, cpio, ready, unit, keys, tags>>

\* run_impl scans usr/lib/modules itself and stops at the first directory,
\* in the order read_dir gives, that has vmlinuz and initramfs.img
RunImplFindKernel ==
  /\ kernel = NotLocated
  /\ LET found == find_traditional_kernels_in_modules(root) IN
       IF found = {}
         THEN kernel' = [by |-> "run_impl", outcome |-> "none"]
         ELSE \E k \in found : kernel' = [by |-> "run_impl", outcome |-> "ok", info |-> k]
  /\ UNCHANGED <<poolvars, root, eph, cpio, ready, unit, keys, tags>>

InitKernel ==
  /\ PoolIdle
  /\ root \in Roots
  /\ kernel = NotLocated
  /\ eph = EphIdle /\ cpio = << >> /\ ready = NotWaiting /\ unit = NoUnit
  /\ keys = << >> /\ tags = NoTags

NextKernel ==
  \/ FindKernel
  \/ RunImplFindKernel

SpecKernel == InitKernel /\ [][NextKernel]_vars

\* ------------------------------------------------------ run_ephemeral.rs
\* kernel arguments given to one run
MaxKargs == 2

\* the largest exit code QEMU returns
MaxExitCode == 2

\* a kernel argument is a sequence of tokens; str::contains looks for a token
KargChoices ==
  {<<"systemd.unit=", "poweroff.target">>,
   <<"systemd.mask=", "poweroff.target">>,
   <<"console=ttyS0">>}

KernelArgs == UNION {[1..n -> KargChoices] : n \in 0..MaxKargs}

\* std::process::ExitStatus: an exit code, or termination by a signal
ExitStatuses ==
  {[kind |-> "code", code |-> c] : c \in 0..MaxExitCode} \cup
  {[kind |-> "signal", code |-> 0]}

\* kernel_args.join(" ")
RECURSIVE join(_)
join(args) ==
  IF args = << >> THEN << >>
  ELSE IF Len(args) = 1 THEN args[1]
  ELSE args[1] \o <<" ">> \o join(Tail(args))

\* the test both run and run_impl apply to the status of QEMU
status_accepted(status, kargs_str) ==
  \/ status.kind = "code" /\ status.code = 0
  \/ /\ status.kind = "code"
     /\ status.code = 1
     /\ Contains(kargs_str, <<"poweroff.target">>)

\* run: QEMU runs inside the container, the container's status is classified
Run(kargs, status) ==
  /\ eph.pc = "idle"
  /\ eph' = [eph EXCEPT !.pc = "returned", !.via = "run", !.kargs = kargs,
                        !.status = status,
                        !.result = IF status_accepted(status, join(kargs))
                                     THEN "ok" ELSE "err"]
  /\ UNCHANGED <<poolvars, root, kernel, cpio, ready, unit, keys, tags>>

\* run_impl up to the start of virtiofsd
RunImplStart(kargs, debug_mode) ==
  /\ eph.pc = "idle"
  /\ eph' = [eph EXCEPT !.pc = "spawn_virtiofsd", !.via = "run_impl",
                        !.kargs = kargs, !.debug = debug_mode]
  /\ UNCHANGED <<poolvars, root, kernel, cpio, ready, unit, keys, tags>>

\* virtiofsd::spawn_virtiofsd(&virtiofsd_config)?
SpawnVirtiofsd(spawned) ==
  /\ eph.pc = "spawn_virtiofsd"
  /\ eph' = IF spawned
              THEN [eph EXCEPT !.pc = "virtiofsd_up", !.virtiofsd = "running"]
              ELSE [eph EXCEPT !.pc = "returned", !.result = "err"]
  /\ UNCHANGED <<poolvars, root, kernel, cpio, ready, unit, keys, tags>>

\* the virtiofsd process, once started, binds and listens on --socket-path
VirtiofsdListen ==
  /\ eph.virtiofsd = "running"
  /\ eph.socket = "absent"
  /\ eph' = [eph EXCEPT !.socket = "listening"]
  /\ UNCHANGED <<poolvars, root, kernel, cpio, ready, unit, keys, tags>>

\* the virtiofsd process ends by itself; its owner does not wait on it
VirtiofsdExit ==
  /\ eph.virtiofsd = "running"
  /\ eph' = [eph EXCEPT !.virtiofsd = "exited",
                        !.socket = IF eph.socket = "listening" THEN "dead" ELSE eph.socket]
  /\ UNCHANGED <<poolvars, root, kernel, cpio, ready, unit, keys, tags>>

\* QEMU opens its vhost-user chardev on virtiofs_socket when it starts
qemu_connect(socket) == IF socket = "listening" THEN "ok" ELSE "refused"

\* debug mode: a bash shell instead of QEMU, then virtiofsd.kill().ok()
DebugShell(shell) ==
  /\ eph.pc = "virtiofsd_up"
  /\ eph.debug
  /\ eph' = IF shell = "not_started"
              THEN [eph EXCEPT !.pc = "returned", !.result = "err"]
              ELSE [eph EXCEPT !.pc = "returned", !.virtiofsd = "killed",
                               !.result = IF shell = "success" THEN "ok" ELSE "err"]
  /\ UNCHANGED <<poolvars, root, kernel, cpio, ready, unit, keys, tags>>

\* qemu::spawn_qemu(&qemu_config)?
SpawnQemu(spawned) ==
  /\ eph.pc = "virtiofsd_up"
  /\ ~eph.debug
  /\ eph' = IF spawned
              THEN [eph EXCEPT !.pc = "wait", !.qemu = "running",
                               !.connect = qemu_connect(eph.socket)]
              ELSE [eph EXCEPT !.pc = "returned", !.result = "err"]
  /\ UNCHANGED <<poolvars, root, kernel, cpio, ready, unit, keys, tags>>

\* the QEMU process ends by itself: the guest powers off, or QEMU fails
QemuExit(status) ==
  /\ eph.qemu = "running"
  /\ eph' = [eph EXCEPT !.qemu = "exited", !.status = status]
  /\ UNCHANGED <<poolvars, root, kernel, cpio, ready, unit, keys, tags>>

\* qemu.wait() returns, virtiofsd.kill().ok(), the status is classified
QemuWait ==
  /\ eph.pc = "wait"
  /\ eph.qemu = "exited"
  /\ eph' = [eph EXCEPT !.pc = "returned", !.qemu = "reaped",
                        !.virtiofsd = "killed",
                        !.result = IF status_accepted(eph.status, join(eph.kargs))
                                     THEN "ok" ELSE "err"]
  /\ UNCHANGED <<poolvars, root, kernel, cpio, ready, unit, keys, tags>>

\* --------------------------------------------------------------- cpio.rs
UNIT_DIR == <<"usr", "lib", "systemd", "system">>

DROPIN_DIR == <<"usr", "lib", "systemd", "system", "initrd-fs.target.d">>

\* write_directory: a newc header of mode 0o755, type directory, no data
write_directory(buf, path) ==
  Append(buf, [type |-> "dir", mode |-> "0755", path |-> path, content |-> << >>])

\* write_file: a newc header of mode 0o644, type regular, then the content
write_file(buf, path, content) ==
  Append(buf, [type |-> "file", mode |-> "0644", path |-> path, content |-> content])

\* cpio::newc::trailer
trailer(buf) ==
  Append(buf, [type |-> "trailer", mode |-> "0000", path |-> <<"TRAILER!!!">>,
               content |-> << >>])

\* include_bytes!("units/<name>.service")
UnitFile(name) == <<"[Unit]", "[Service]", name>>

\* b"[Unit]\nWants=<name>.service\n"
Wants(name) == <<"[Unit]", "Wants=", name, ".service">>

Dir(path) == [type |-> "dir", path |-> path, content |-> << >>]

File(path, content) == [type |-> "file", path |-> path, content |-> content]

entries ==
  <<Dir(<<"usr">>),
    Dir(<<"usr", "lib">>),
    Dir(<<"usr", "lib", "systemd">>),
    Dir(UNIT_DIR),
    Dir(DROPIN_DIR),
    File(UNIT_DIR \o <<"bcvk-etc-overlay", ".service">>, UnitFile("bcvk-etc-overlay")),
    File(UNIT_DIR \o <<"bcvk-var-ephemeral", ".service">>, UnitFile("bcvk-var-ephemeral")),
    File(UNIT_DIR \o <<"bcvk-copy-units", ".service">>, UnitFile("bcvk-copy-units")),
    File(UNIT_DIR \o <<"bcvk-journal-stream", ".service">>, UnitFile("bcvk-journal-stream")),
    File(DROPIN_DIR \o <<"bcvk-etc-overlay", ".conf">>, Wants("bcvk-etc-overlay")),
    File(DROPIN_DIR \o <<"bcvk-var-ephemeral", ".conf">>, Wants("bcvk-var-ephemeral")),
    File(DROPIN_DIR \o <<"bcvk-copy-units", ".conf">>, Wants("bcvk-copy-units"))>>

\* the loop over entries, from the first entry on
RECURSIVE write_entries(_, _)
write_entries(buf, rest) ==
  IF rest = << >> THEN buf
  ELSE write_entries(
         IF Head(rest).type = "dir"
           THEN write_directory(buf, Head(rest).path)
           ELSE write_file(buf, Head(rest).path, Head(rest).content),
         Tail(rest))

create_initramfs_units_cpio == trailer(write_entries(<< >>, entries))

\* the augmentation archive is built once per run
CreateInitramfsUnitsCpio ==
  /\ cpio = << >>
  /\ cpio' = create_initramfs_units_cpio
  /\ UNCHANGED <<poolvars, root, kernel, eph, ready, unit, keys, tags>>

NextEphemeral ==
  \/ \E kargs \in KernelArgs, status \in ExitStatuses : Run(kargs, status)
  \/ \E kargs \in KernelArgs, debug_mode \in BOOLEAN : RunImplStart(kargs, debug_mode)
  \/ \E spawned \in BOOLEAN : SpawnVirtiofsd(spawned)
  \/ VirtiofsdListen
  \/ VirtiofsdExit
  \/ \E shell \in {"not_started", "success", "failure"} : DebugShell(shell)
  \/ \E spawned \in BOOLEAN : SpawnQemu(spawned)
  \/ \E status \in ExitStatuses : QemuExit(status)
  \/ QemuWait
  \/ CreateInitramfsUnitsCpio

SpecEphemeral == Init /\ [][NextEphemeral]_vars

\* --------------------------------------- utils.rs, libvirt/ssh.rs: readiness
SSH_RETRY_TIMEOUT_SECS == 60

SSH_POLL_DELAY_SECS == 1

\* the largest timeout, in seconds, a caller gives wait_for_readiness
MaxTimeout == 3

\* the largest poll interval, in seconds, a caller gives wait_for_readiness
MaxPollInterval == 2

\* the longest one readiness test takes, in seconds
MaxTestSecs == 1

\* connect_ssh up to its connectivity loop
ConnectSsh(suppress_output) ==
  /\ ready.pc = "idle"
  /\ ready' = [ready EXCEPT !.pc = "polling", !.via = "connect_ssh",
                            !.timeout = SSH_RETRY_TIMEOUT_SECS,
                            !.poll_interval = SSH_POLL_DELAY_SECS,
                            !.suppress_output = suppress_output]
  /\ UNCHANGED <<poolvars, root, kernel, eph, cpio, unit, keys, tags>>

\* one round of the loop of connect_ssh: ssh -- true, then the timeout test,
\* then the sleep
SshAttempt(test_secs) ==
  /\ ready.pc = "polling"
  /\ ready.via = "connect_ssh"
  /\ LET elapsed == ready.elapsed + test_secs IN
       ready' =
         IF ready.guest_up
           THEN [ready EXCEPT !.pc = "returned", !.elapsed = elapsed,
                              !.attempt = @ + 1, !.result = "ready"]
         ELSE IF elapsed >= ready.timeout
           THEN [ready EXCEPT !.pc = "returned", !.elapsed = elapsed,
                              !.attempt = @ + 1, !.result = "timeout",
                              !.console_hint = ~ready.suppress_output]
           ELSE [ready EXCEPT !.elapsed = elapsed + ready.poll_interval,
                              !.attempt = @ + 1]
  /\ UNCHANGED <<poolvars, root, kernel, eph, cpio, unit, keys, tags>>

\* wait_for_readiness up to its loop
WaitForReadiness(timeout, poll_interval) ==
  /\ ready.pc = "idle"
  /\ ready' = [ready EXCEPT !.pc = "polling", !.via = "wait_for_readiness",
                            !.timeout = timeout, !.poll_interval = poll_interval]
  /\ UNCHANGED <<poolvars, root, kernel, eph, cpio, unit, keys, tags>>

\* one round of the loop of wait_for_readiness: test_fn(), then the sleep
ReadinessAttempt(test_secs) ==
  /\ ready.pc = "polling"
  /\ ready.via = "wait_for_readiness"
  /\ ready.elapsed < ready.timeout
  /\ ready' =
       IF ready.guest_up
         THEN [ready EXCEPT !.pc = "returned", !.elapsed = @ + test_secs,
                            !.attempt = @ + 1, !.result = "ready"]
         ELSE [ready EXCEPT !.elapsed = @ + test_secs + ready.poll_interval,
                            !.attempt = @ + 1]
  /\ UNCHANGED <<poolvars, root, kernel, eph, cpio, unit, keys, tags>>

\* the loop condition of wait_for_readiness fails: Err("Timeout waiting for
\* readiness after {}s ({} attempts)")
ReadinessTimeout ==
  /\ ready.pc = "polling"
  /\ ready.via = "wait_for_readiness"
  /\ ready.elapsed >= ready.timeout
  /\ ready' = [ready EXCEPT !.pc = "returned", !.result = "timeout"]
  /\ UNCHANGED <<poolvars, root, kernel, eph, cpio, unit, keys, tags>>

\* the guest reaches the point where the readiness test succeeds
GuestUp ==
  /\ ready.pc = "polling"
  /\ ~ready.guest_up
  /\ ready' = [ready EXCEPT !.guest_up = TRUE]
  /\ UNCHANGED <<poolvars, root, kernel, eph, cpio, unit, keys, tags>>

NextReady ==
  \/ \E suppress_output \in BOOLEAN : ConnectSsh(suppress_output)
  \/ \E test_secs \in 0..MaxTestSecs : SshAttempt(test_secs)
  \/ \E timeout \in 0..MaxTimeout, poll_interval \in 1..MaxPollInterval :
       WaitForReadiness(timeout, poll_interval)
  \/ \E test_secs \in 0..MaxTestSecs : ReadinessAttempt(test_secs)
  \/ ReadinessTimeout
  \/ GuestUp

SpecReady == Init /\ [][NextReady]_vars

\* -------------------------------------------------------- credentials.rs
\* characters after the leading slash of a guest path
MaxPathLen == 4

\* the characters of guest paths: a path is a sequence of them
PathChars == {"/", "-", "\\", "x", "2", "d", "a"}

\* the absolute guest paths (BindMount::validate lets no other path through)
GuestPaths == {<<"/">> \o t : t \in UNION {[1..n -> PathChars] : n \in 0..MaxPathLen}}

\* str::strip_prefix('/').unwrap_or(guest_path)
strip_prefix(path) == IF path # << >> /\ path[1] = "/" THEN Tail(path) ELSE path

\* str::split('/'): the components between the slashes, empty ones included
RECURSIVE split(_)
split(path) ==
  IF \A i \in DOMAIN path : path[i] # "/" THEN <<path>>
  ELSE LET i == CHOOSE k \in DOMAIN path :
                  path[k] = "/" /\ \A j \in 1..(k - 1) : path[j] # "/" IN
         <<SubSeq(path, 1, i - 1)>> \o split(SubSeq(path, i + 1, Len(path)))

\* component.replace('-', "\\x2d")
RECURSIVE replace(_)
replace(component) ==
  IF component = << >> THEN << >>
  ELSE (IF Head(component) = "-" THEN <<"\\", "x", "2", "d">> ELSE <<Head(component)>>)
       \o replace(Tail(component))

\* .collect::<Vec<_>>().join("-")
RECURSIVE join_dash(_)
join_dash(components) ==
  IF components = << >> THEN << >>
  ELSE IF Len(components) = 1 THEN components[1]
  ELSE components[1] \o <<"-">> \o join_dash(Tail(components))

escape_components(components) == [i \in DOMAIN components |-> replace(components[i])]

guest_path_to_unit_name(guest_path) ==
  join_dash(escape_components(split(strip_prefix(guest_path)))) \o <<".mount">>

\* a mount unit name is derived from a guest path
GuestPathToUnitName ==
  /\ unit.pc = "idle"
  /\ unit' = [unit EXCEPT !.pc = "named",
                          !.unit_name = guest_path_to_unit_name(unit.guest_path)]
  /\ UNCHANGED <<poolvars, root, kernel, eph, cpio, ready, keys, tags>>

InitUnit ==
  /\ PoolIdle
  /\ root = NoRoot /\ kernel = NotLocated /\ eph = EphIdle /\ cpio = << >>
  /\ ready = NotWaiting
  /\ unit \in {[NoUnit EXCEPT !.guest_path = g] : g \in GuestPaths}
  /\ keys = << >> /\ tags = NoTags

NextUnit == GuestPathToUnitName

SpecUnit == InitUnit /\ [][NextUnit]_vars

\* ------------------------------------ run_anaconda.rs: the anaconda cache hash
\* cache hashes computed in one behaviour
MaxKeyCalls == 2

\* the --karg values of InstallOptions
KargValues == {"quiet", "console=ttyS0"}

\* InstallOptions: filesystem, root_size, karg, composefs_backend, bootloader
InstallOptionsSet ==
  {[filesystem |-> fs, root_size |-> "none", karg |-> ka,
    composefs_backend |-> FALSE, bootloader |-> "none"] :
     fs \in {"none", "ext4"},
     ka \in UNION {[1..n -> KargValues] : n \in 0..MaxKargs}}

\* the arguments of find_or_create_anaconda_base_disk that enter the hash
AnacondaInputs ==
  {[image_digest |-> "sha256:d1", kickstart_content |-> "ks1", no_repoint |-> nr,
    install_options |-> io] : nr \in BOOLEAN, io \in InstallOptionsSet}

\* for karg in &install_options.karg { hasher.update("|karg:{karg}") }
RECURSIVE update_kargs(_)
update_kargs(karg) ==
  IF karg = << >> THEN << >>
  ELSE <<"|karg:", Head(karg)>> \o update_kargs(Tail(karg))

\* the bytes given to the Sha256 hasher, in the order of the update calls;
\* sha256 maps different byte strings to different hashes
anaconda_hash_bytes(in) ==
  LET io == in.install_options IN
    <<in.image_digest, "|anaconda|", in.kickstart_content,
      "|repoint:", IF in.no_repoint THEN "false" ELSE "true", "|">>
    \o (IF io.filesystem # "none" THEN <<"fs:", io.filesystem>> ELSE << >>)
    \o (IF io.root_size # "none" THEN <<"|size:", io.root_size>> ELSE << >>)
    \o update_kargs(io.karg)
    \o (IF io.composefs_backend THEN <<"|composefs:true">> ELSE << >>)
    \o (IF io.bootloader # "none" THEN <<"|bootloader:", io.bootloader>> ELSE << >>)

\* format!("sha256:{:x}", hasher.finalize())
anaconda_cache_hash_of(in) == <<"sha256:", anaconda_hash_bytes(in)>>

\* one call computes the cache hash of its inputs
ComputeAnacondaHash(in) ==
  /\ Len(keys) < MaxKeyCalls
  /\ keys' = Append(keys, [input |-> in, cache_hash |-> anaconda_cache_hash_of(in)])
  /\ UNCHANGED <<poolvars, root, kernel, eph, cpio, ready, unit, tags>>

NextKeys == \E in \in AnacondaInputs : ComputeAnacondaHash(in)

SpecKeys == Init /\ [][NextKeys]_vars

\* ------------------------------------------- run.rs: virtiofs filesystems
\* the most --bind and the most --bind-ro options of one run
MaxBinds == 2

\* the most --volume options of one run
MaxRawVolumes == 2

\* the tags a user gives with --volume host_path:tag
RawTags == {<<"data">>, <<"hoststorage">>, <<"bcvk-bind-", 0>>}

RawVolumeLists == UNION {[1..n -> RawTags] : n \in 0..MaxRawVolumes}

\* DomainBuilder::with_virtiofs_filesystem: one more filesystem of the domain
with_virtiofs_filesystem(fss, fs) == Append(fss, fs)

\* the loop over opts.raw_volumes: the tag is the one parse_volume_mount returns
RECURSIVE add_raw_volumes(_, _)
add_raw_volumes(fss, raw_volumes) ==
  IF raw_volumes = << >> THEN fss
  ELSE add_raw_volumes(
         with_virtiofs_filesystem(fss, [tag |-> Head(raw_volumes), readonly |-> FALSE]),
         Tail(raw_volumes))

\* the loop of process_bind_mounts over n validated mounts, from index idx:
\* tag = format!("{}{}", tag_prefix, idx)
RECURSIVE bind_mount_filesystems(_, _, _, _, _)
bind_mount_filesystems(fss, n, idx, tag_prefix, readonly) ==
  IF idx >= n THEN fss
  ELSE bind_mount_filesystems(
         with_virtiofs_filesystem(fss, [tag |-> <<tag_prefix, idx>>, readonly |-> readonly]),
         n, idx + 1, tag_prefix, readonly)

\* create_libvirt_domain_from_disk: the virtiofs filesystems of the domain, in
\* the order the builder receives them
domain_filesystems(raw_volumes, n_rw, n_ro, bind_storage_ro, supports_readonly) ==
  LET raw == add_raw_volumes(<< >>, raw_volumes)
      rw == bind_mount_filesystems(raw, n_rw, 0, "bcvk-bind-", FALSE)
      ro == IF supports_readonly
              THEN bind_mount_filesystems(rw, n_ro, 0, "bcvk-bind-ro-", TRUE)
              ELSE bind_mount_filesystems(rw, n_ro, 0, "bcvk-bind-", FALSE)
  IN  IF bind_storage_ro
        THEN with_virtiofs_filesystem(ro, [tag |-> <<"hoststorage">>,
                                           readonly |-> supports_readonly])
        ELSE ro

CreateDomainFilesystems(raw_volumes, n_rw, n_ro, bind_storage_ro, supports_readonly) ==
  /\ tags.pc = "idle"
  /\ tags' = [pc |-> "built",
              filesystems |-> domain_filesystems(raw_volumes, n_rw, n_ro,
                                                 bind_storage_ro, supports_readonly)]
  /\ UNCHANGED <<poolvars, root, kernel, eph, cpio, ready, unit, keys>>

NextTags ==
  \E raw_volumes \in RawVolumeLists, n_rw \in 0..MaxBinds, n_ro \in 0..MaxBinds,
     bind_storage_ro \in BOOLEAN, supports_readonly \in BOOLEAN :
       CreateDomainFilesystems(raw_volumes, n_rw, n_ro, bind_storage_ro, supports_readonly)

SpecTags == Init /\ [][NextTags]_vars

\* every operation of the program
Next ==
  \/ \E p \in Procs, key \in Keys : FindOrCreateStart(p, key)
  \/ \E p \in Procs, key \in AnacondaKeys : AnacondaFindOrCreateStart(p, key)
  \/ \E p \in Procs, key \in Keys, vm \in VmNames, t \in BOOLEAN, b \in BindMountLists :
        RunStart(p, key, vm, t, b)
  \/ \E p \in Procs, key \in AnacondaKeys, vm \in VmNames, t \in BOOLEAN :
        AnacondaStart(p, key, vm, t)
  \/ \E p \in Procs : List(p)
  \/ \E p \in Procs, dry \in BOOLEAN : Prune(p, dry)
  \/ CacheStep
  \/ VmStep
  \/ \E vm \in VmNames : GuestWrite(vm)
  \/ \E n \in DOMAIN files : DamageDisk(n)
  \/ NextKernel
  \/ NextEphemeral
  \/ NextReady
  \/ NextUnit
  \/ NextKeys
  \/ NextTags

Spec == Init /\ [][Next]_vars

\* ------------------------------------------------------------------- claims
\* the names find_or_create_base_disk and find_or_create_anaconda_base_disk
\* give to finalized base disks
FinalBaseNames ==
  {base_disk_name(k) : k \in Keys} \cup {anaconda_base_disk_name(k) : k \in AnacondaKeys}

\* C1: at every moment a file present at a finalized base-disk name is a
\* completely installed system (no in-progress or failed install is ever
\* observable at that name).
C1_FinalNameIsInstalled ==
  \A n \in DOMAIN files : n \in FinalBaseNames => files[n].data = "installed"

\* the three xattrs are present on the file
CarriesXattrs(file) == \A x \in XattrNames : file.xattr[x] # Absent

\* the hash in a base-disk name: the token before ".qcow2"
NameHash(n) == n[Len(n) - 1]

\* the record of the xattrs is the record of a key whose cache hash, cut to
\* 16 digits, is the hash in the name
RecordMatchesName(file, n) ==
  \E k \in Keys \cup AnacondaKeys :
     /\ file.xattr["user.bcvk.image-digest"] = k.digest
     /\ file.xattr["user.bcvk.install-options-hash"] = k.opts
     /\ file.xattr["user.bcvk.kernel-args"] = k.kargs
     /\ short_hash(compute_cache_hash(k)) = NameHash(n)

\* C2: at every moment every base disk in the cache directory carries the
\* three xattrs and the record they hold matches the hash in its file name.
C2_BaseCarriesMatchingXattrs ==
  \A n \in DOMAIN files :
     n \in FinalBaseNames => CarriesXattrs(files[n]) /\ RecordMatchesName(files[n], n)

\* a file exists at the key's base-disk name and its xattrs decode to the
\* record of the key
ExistsMatching(f, key) ==
  /\ base_disk_name(key) \in DOMAIN f
  /\ f[base_disk_name(key)].xattr["user.bcvk.image-digest"] = key.digest
  /\ f[base_disk_name(key)].xattr["user.bcvk.install-options-hash"] = key.opts
  /\ f[base_disk_name(key)].xattr["user.bcvk.kernel-args"] = key.kargs

C4_StaleRemovedAndRebuilt ==
  [][\A p \in Procs :
       /\ (proc[p].pc = "lookup" /\ proc'[p] # proc[p]
             /\ Exists(files, proc[p].base) /\ ~ExistsMatching(files, proc[p].key))
            => proc'[p].pc = "remove_stale"
       /\ (proc[p].pc = "remove_stale" /\ proc'[p].pc = "install")
            => ~Exists(files', proc[p].base)
       /\ (proc[p].pc = "rename" /\ proc[p].result = "stale" /\ proc'[p].result = "rebuilt")
            => /\ ExistsMatching(files', proc[p].key)
               /\ files'[proc[p].base].data = "installed"]_vars

\* a step in which process p runs prune_base_disks
PruneStep(p) ==
  /\ proc[p].pc = "idle" /\ proc'[p].op = "prune" /\ nops' = nops + 1
  /\ Prune(p, proc'[p].dry)

\* a VM may still be using base b: b backs an existing VM disk, a domain has
\* b itself as its disk, or the backing of some VM disk cannot be read
MayBeInUse(f, dm, b) ==
  \/ \E d \in DOMAIN f : f[d].backing # NoName /\ FileName(f[d].backing) = b
  \/ \E vm \in DOMAIN dm : dm[vm].disk = b
  \/ \E d \in DOMAIN f : f[d].backing # NoName /\ ~f[d].readable

\* C5: prune never removes a base disk a VM may still be using: not the
\* backing file of an existing VM disk, not the disk of a transient VM that
\* uses the base directly, and no base while some VM disk is unreadable.
C5_PruneKeepsBasesInUse ==
  [][\A p \in Procs :
       PruneStep(p) =>
         \A b \in (DOMAIN files) \ (DOMAIN files') : ~MayBeInUse(files, domains, b)]_vars

CloneStep(p) == proc[p].pc = "clone" /\ proc'[p] # proc[p]

\* C7: every VM disk a successful clone produces is the qcow2 volume
\* {vm_name}.qcow2, the basename of its backing file is the file name of the
\* base and its virtual size is the virtual size of the base.
C7_CloneOfBase ==
  [][\A p \in Procs :
       (CloneStep(p) /\ proc'[p].pc = "domain") =>
          LET disk == proc[p].vm \o <<".qcow2">> IN
            /\ proc'[p].disk = disk
            /\ Exists(files', disk)
            /\ files'[disk].data = "overlay"
            /\ files'[disk].backing # NoName
            /\ FileName(files'[disk].backing) = proc[p].base
            /\ files'[disk].vsize = files[proc[p].base].vsize]_vars

\* a clone has produced the disk of a VM and its base is in the pool
C7_Witness ==
  \E p \in Procs :
     /\ proc[p].pc = "domain" /\ ~proc[p].transient
     /\ Exists(files, proc[p].disk)
     /\ Exists(files, proc[p].base)
     /\ files[proc[p].disk].vsize = "20G"

VmVolumes(f) ==
  {d \in DOMAIN f :
     (EndsWith(d, ".qcow2") \/ EndsWith(d, ".raw")) /\ ~StartsWith(d, "bootc-base-")}

\* the VM disks that can be read and whose backing file is base b
ReadableReferences(f, b) ==
  {d \in VmVolumes(f) : f[d].readable /\ f[d].backing # NoName /\ FileName(f[d].backing) = b}

\* the VM disks that cannot be read
Unreadable(f) == {d \in VmVolumes(f) : ~f[d].readable}

\* a non-dry-run prune by process p that returns Ok
PruneOk(p) == PruneStep(p) /\ ~proc'[p].dry /\ proc'[p].result = "ok"

ListStep(p) == proc'[p].op = "list" /\ nops' = nops + 1 /\ List(p)

\* C10 (as stated): the refcount list reports for a base is the number of VM
\* disks whose backing file names the base, a VM disk that cannot be read
\* counting for every base.
C10_RefcountCountsUnreadable ==
  [][\A p \in Procs :
       ListStep(p) =>
         \A b \in DOMAIN proc'[p].refs :
            proc'[p].refs[b] =
              Cardinality(ReadableReferences(files, b) \cup Unreadable(files))]_vars

\* C10 (amended): list reports every base disk of the pool, and the refcount
\* of a base is the number of VM disks that can be read and whose backing
\* file names the base; a VM disk that cannot be read counts for no base.
C10_RefcountCountsReadable ==
  [][\A p \in Procs :
       ListStep(p) =>
         /\ DOMAIN proc'[p].refs =
              {n \in DOMAIN files : StartsWith(n, "bootc-base-") /\ EndsWith(n, ".qcow2")}
         /\ \A b \in DOMAIN proc'[p].refs :
               proc'[p].refs[b] = Cardinality(ReadableReferences(files, b))]_vars

\* list has reported refcount 2 for a base two VMs were cloned from
C10_Witness ==
  \E p \in Procs :
     /\ proc[p].op = "list"
     /\ \E b \in DOMAIN proc[p].refs :
           proc[p].refs[b] = 2 /\ Cardinality(ReadableReferences(files, b)) = 2

\* -------------------------------------------------- claims: kernel locator
\* the UKIs an image root holds: regular files named *.efi in boot/EFI/Linux
\* or in a version directory of usr/lib/modules
UkisOfRoot(r) ==
  {<<"boot", EFI_LINUX, e.name>> :
     e \in {x \in r.esp : x.name[2] = "efi" /\ x.type = "file"}} \cup
  UNION {{<<"usr/lib", MODULES_DIR, v, e.name>> :
            e \in {x \in r.modules[v].entries : x.name[2] = "efi" /\ x.type = "file"}} :
         v \in {x \in DOMAIN r.modules : r.modules[x].type = "dir"}}

\* the version directories that hold a vmlinuz + initramfs.img pair
TraditionalOfRoot(r) ==
  {v \in DOMAIN r.modules :
     /\ r.modules[v].type = "dir"
     /\ r.modules[v].vmlinuz
     /\ r.modules[v].initramfs}

C13_MultipleTraditionalFail ==
  (/\ kernel.by # "none"
   /\ UkisOfRoot(root) = {}
   /\ Cardinality(TraditionalOfRoot(root)) > 1) =>
    kernel.outcome = "multiple"

\* C14: with zero UKIs and zero traditional kernels the Kernel Locator
\* reports NoKernel, and every outcome of the Locator is one Kernel Info,
\* NoKernel or MultipleKernels.
C14_NoKernelWhenEmpty ==
  kernel.by = "find_kernel" =>
    /\ kernel.outcome \in {"ok", "none", "multiple"}
    /\ (UkisOfRoot(root) = {} /\ TraditionalOfRoot(root) = {}) => kernel.outcome = "none"

\* -------------------------------------------------- claims: ephemeral run
\* the VM was booted with the kernel argument systemd.unit=poweroff.target
BootedWithPoweroffTarget ==
  \E i \in DOMAIN eph.kargs : eph.kargs[i] = <<"systemd.unit=", "poweroff.target">>

\* C15: an ephemeral run is reported as success exactly when QEMU exits with
\* code 0, or with code 1 after a boot with systemd.unit=poweroff.target;
\* every other exit is reported as a failure.
C15_SuccessOnlyForPoweroffBoot ==
  (eph.pc = "returned" /\ eph.status.kind # "none") =>
    (eph.result = "ok" <=>
       /\ eph.status.kind = "code"
       /\ \/ eph.status.code = 0
          \/ eph.status.code = 1 /\ BootedWithPoweroffTarget)

\* C17: once the owner of the QEMU and virtiofsd processes has returned
\* (normal exit or error), QEMU and every virtiofsd child have been
\* terminated and reaped: no child process outlives its owner.
C17_NoChildOutlivesOwner ==
  (eph.via = "run_impl" /\ eph.pc = "returned") =>
    /\ eph.qemu \in {"none", "reaped"}
    /\ eph.virtiofsd \in {"none", "reaped"}

\* ------------------------------------------- claims: augmentation archive
AugmentationUnits ==
  {"bcvk-etc-overlay", "bcvk-var-ephemeral", "bcvk-copy-units", "bcvk-journal-stream"}

\* the files of an archive, by path
ArchiveFiles(archive) ==
  {[path |-> archive[i].path, content |-> archive[i].content] :
     i \in {j \in DOMAIN archive : archive[j].type = "file"}}

\* C20: the augmentation archive holds the four service units and, for each
\* of the four, a drop-in under initrd-fs.target.d that Wants= the unit.
C20_EveryUnitHasDropIn ==
  cpio # << >> =>
    \A u \in AugmentationUnits :
      /\ \E f \in ArchiveFiles(cpio) :
           f.path = <<"usr", "lib", "systemd", "system", u, ".service">>
      /\ \E f \in ArchiveFiles(cpio) :
           /\ f.path = <<"usr", "lib", "systemd", "system", "initrd-fs.target.d", u, ".conf">>
           /\ f.content = <<"[Unit]", "Wants=", u, ".service">>

\* ------------------------------------------------- claims: readiness wait
\* C16: when the guest never becomes ready, the readiness wait ends only
\* after its timeout budget has elapsed, never reports ready, and fails with
\* a timeout error that directs the user to attach a console.
C16_TimeoutDirectsToConsole ==
  (ready.pc = "returned" /\ ~ready.guest_up) =>
    /\ ready.result = "timeout"
    /\ ready.elapsed >= ready.timeout
    /\ ready.console_hint

\* ------------------------------------------------ claims: invalid inputs
\* the run of p was given a bind mount that violates the contract: a host
\* path that is missing or no directory, or a guest path that is not absolute
InvalidBindMount(p) ==
  \E i \in DOMAIN proc[p].bind_mounts :
     \/ proc[p].bind_mounts[i].host_path \in {"missing", "file"}
     \/ proc[p].bind_mounts[i].guest_path[1] # "/"

\* C18: a run whose bind mount violates the contract fails before any side
\* effect: no step of it creates or removes a base disk, deletes or clones a
\* VM disk, or defines a domain, and it never ends in success.
C18_InvalidBindNoSideEffect ==
  [][\A p \in Procs :
       (proc[p].op = "run" /\ InvalidBindMount(p) /\ proc'[p] # proc[p]) =>
         /\ files' = files
         /\ domains' = domains
         /\ proc'[p].result # "ok"]_vars

\* ------------------------------------------------ claims: mount unit names
\* systemd's unit_name_unescape: a dash is a slash, \xHH is the byte HH, a
\* backslash followed by anything else is not a valid escape
HexDigits == {"2", "d", "a"}

RECURSIVE SystemdUnescape(_)
SystemdUnescape(name) ==
  IF name = << >> THEN << >>
  ELSE IF Head(name) = "-" THEN <<"/">> \o SystemdUnescape(Tail(name))
  ELSE IF Head(name) = "\\"
    THEN IF Len(name) >= 4 /\ name[2] = "x" /\ name[3] \in HexDigits /\ name[4] \in HexDigits
           THEN <<IF name[3] = "2" /\ name[4] = "d" THEN "-" ELSE "byte">>
                \o SystemdUnescape(SubSeq(name, 5, Len(name)))
           ELSE <<"invalid">>
  ELSE <<Head(name)>> \o SystemdUnescape(Tail(name))

\* systemd's unit_name_to_path: the prefix of the unit name, unescaped, as an
\* absolute path. A name with an empty prefix or a bad escape is no unit
\* name; a prefix that decodes to a path with a leading, trailing or double
\* slash is rejected; the prefix "-" is the root directory
SystemdUnitNameToPath(name) ==
  LET prefix == SubSeq(name, 1, Len(name) - 1)
      path == SystemdUnescape(prefix) IN
    IF name = << >> \/ name[Len(name)] # ".mount" \/ prefix = << >> THEN <<"invalid">>
    ELSE IF prefix = <<"-">> THEN <<"/">>
    ELSE IF \E i \in DOMAIN path : path[i] = "invalid" THEN <<"invalid">>
    ELSE IF path[1] = "/" \/ path[Len(path)] = "/" THEN <<"invalid">>
    ELSE IF \E i \in 1..(Len(path) - 1) : path[i] = "/" /\ path[i + 1] = "/"
      THEN <<"invalid">>
    ELSE <<"/">> \o path

\* C19: for every absolute guest path without a newline, the path decoded by
\* systemd's escape rules from its mount unit name is the original path.
C19_UnitNameRoundTrip ==
  unit.pc = "named" => SystemdUnitNameToPath(unit.unit_name) = unit.guest_path

\* ------------------------------------------------------- claims: cache key
\* how often each kernel argument occurs in a list, whatever the order
KargBag(karg) ==
  [k \in {karg[i] : i \in DOMAIN karg} |-> Cardinality({i \in DOMAIN karg : karg[i] = k})]

\* the logical inputs of a key: the kernel arguments count as a collection
LogicalInputs(in) ==
  [in EXCEPT !.install_options = [@ EXCEPT !.karg = KargBag(@)]]

\* C21: the cache key is a function of the logical inputs: the same image
\* digest, install options and kernel arguments give the same key, in
\* whatever order the kernel arguments are supplied.
C21_KeyIgnoresKargOrder ==
  \A i, j \in DOMAIN keys :
     LogicalInputs(keys[i].input) = LogicalInputs(keys[j].input) =>
       keys[i].cache_hash = keys[j].cache_hash

\* ----------------------------------------------- claims: racing producers
\* C22: when producers of the same key race, each of them that reaches its
\* rename completes, the file at the final name after a rename is the file
\* that rename moved, and it is a complete install with the xattrs of the key.
C22_RacingProducersBothValid ==
  [][\A p \in Procs :
       (proc[p].pc = "rename" /\ proc'[p] # proc[p]) =>
         /\ proc'[p].result \in {"created", "rebuilt"}
         /\ files'[proc[p].base] = files[proc[p].tmp]
         /\ ExistsMatching(files', proc[p].key)
         /\ files'[proc[p].base].data = "installed"]_vars

CreatePcs == {"installing", "verify", "rename", "a_installing", "a_rename"}

\* C24: when a step of create fails (the install, the metadata check or
\* write, or the rename) the create returns an error, and after that step its
\* temp path does not exist, the file it had allocated for the install is
\* nowhere in the pool, and the final base-disk name holds what it held before.
C24_FailedCreateLeavesNothing ==
  [][\A p \in Procs :
       (proc[p].pc \in CreatePcs /\ proc'[p].pc = "idle" /\ proc'[p].result = "err") =>
         /\ ~Exists(files', proc[p].tmp)
         /\ \A n \in DOMAIN files : files[n].writer = p => ~Exists(files', n)
         /\ Exists(files', proc[p].base) =>
              (Exists(files, proc[p].base) /\ files'[proc[p].base] = files[proc[p].base])]_vars

\* --------------------------------------------- claims: virtiofsd and QEMU
\* C25: within a VM launch virtiofsd is spawned before QEMU is spawned, and
\* the socket of virtiofsd exists and is listened on when QEMU connects to it.
C25_SocketReadyBeforeQemu ==
  eph.qemu # "none" =>
    /\ eph.virtiofsd # "none"
    /\ eph.connect = "ok"

\* the VM is up for its owner: run_impl has spawned QEMU, is blocked in
\* qemu.wait(), and QEMU has not exited
VmReady == eph.pc = "wait" /\ eph.qemu = "running"

\* C26: whenever a VM is in state Ready, its QEMU child is alive and at
\* least one virtiofsd child is alive.
C26_ReadyHasLiveChildren ==
  VmReady => (eph.qemu = "running" /\ eph.virtiofsd = "running")

\* ------------------------------------ claims: the base between lookup and clone
\* C27: from the return of find_or_create_base_disk until the caller's
\* clone_from_base has created the VM disk, the returned base disk exists:
\* no concurrent prune and no concurrent stale removal unlinks it in between.
C27_BaseSurvivesUntilClone ==
  \A p \in Procs : proc[p].pc = "clone" => Exists(files, proc[p].base)

\* ------------------------------------------ claims: VM disks and base disks
\* the disks clone_from_base has created for the VM names run accepts
ClonedVmDisks(f) ==
  {vm_disk_name(vm) : vm \in {v \in VmNames : Exists(f, vm_disk_name(v))
                                               /\ f[vm_disk_name(v)].data = "overlay"}}

\* C28: for every VM name that run accepts, the disk {vm_name}.qcow2 is
\* never taken for a base disk: list does not report it as a base disk, and
\* prune neither selects it nor deletes it.
C28_VmDiskNeverBaseDisk ==
  [][\A p \in Procs :
       /\ ListStep(p) => ClonedVmDisks(files) \cap DOMAIN proc'[p].refs = {}
       /\ PruneStep(p) =>
            /\ ClonedVmDisks(files) \cap proc'[p].pruned = {}
            /\ ClonedVmDisks(files) \subseteq DOMAIN files']_vars

\* ------------------------------------------------- claims: virtiofs tags
\* C29: within one libvirt domain the virtiofs tags are pairwise distinct,
\* across read-write bind mounts, read-only bind mounts (also when they fall
\* back to read-write), raw volumes and the hoststorage mount.
C29_TagsPairwiseDistinct ==
  \A i, j \in DOMAIN tags.filesystems :
     i # j => tags.filesystems[i].tag # tags.filesystems[j].tag

\* ------------------------------------------- claims: disks being installed
\* the temp files of the creates in progress, of both producers
InProgressTemps(f) ==
  {proc[q].tmp : q \in {r \in Procs : proc[r].pc \in CreatePcs /\ Exists(f, proc[r].tmp)}}

\* C30: a disk that is still being installed, the temp file of the to-disk
\* producer or of the anaconda producer, is never among the base disks list
\* reports and is never selected or removed by prune.
C30_TempNeverListedNorPruned ==
  [][\A p \in Procs :
       /\ ListStep(p) => InProgressTemps(files) \cap DOMAIN proc'[p].refs = {}
       /\ PruneStep(p) =>
            /\ InProgressTemps(files) \cap proc'[p].pruned = {}
            /\ InProgressTemps(files) \subseteq DOMAIN files']_vars

====
